---- MODULE Spec2Model ----
(***************************************************************************)
(* The build-order environment of src/env.py: the dependency and line      *)
(* generators (build_dependencies, build_lines), the object placement      *)
(* (place_objects), the turn simulator (state_generator) and the episode   *)
(* orchestrator (srti_generator, done_generator, info_generator,           *)
(* failure_buffer_wrapper, reset, step).  obs_generator and the running    *)
(* average success_avg of failure_buffer_wrapper are not modelled.         *)
(*                                                                         *)
(* data_types.py (Building, Resource, Worker, Assignment, CompoundAction,  *)
(* WORLD_SIZE, Buildings, costs) is imported by src/env.py but is not part *)
(* of the sources; the definitions that stand for it are modelled from the *)
(* specification and are marked so in MODEL_MAP.json.                      *)
(***************************************************************************)
EXTENDS Integers, Sequences, FiniteSets, TLC

(***************************************************************************)
(* Bounds of the model.                                                    *)
(***************************************************************************)
\* side of the square grid
WorldSize == 2
\* curriculum_setting.max_lines, and the largest line count sampled
MaxLines == 2
\* time_per_line of the configuration
TimePerLine == 1
\* eval_steps of the configuration; evaluation is also followed with
\* eval_steps = 1
EvalSteps == 4
\* random draws are the fractions k / RandSteps, k in 0 .. RandSteps - 1
RandSteps == 4
\* how many steps past time_remaining = 0 an episode is followed
ExtraSteps == 1
\* how many calls of reset() are followed
MaxResets == 2

(***************************************************************************)
(* World objects (data_types.py).                                          *)
(***************************************************************************)
None == "None"

Assimilator == "Assimilator"

Nexus == "Nexus"

Buildings == <<Assimilator, Nexus, "Pylon">>

BuildingSet == {Buildings[k] : k \in 1 .. Len(Buildings)}

Resource == {"MINERALS", "GAS"}

Worker == {"W1", "W2"}

\* the workers in the order of the enumeration (the order of the assignments dict)
Workers == <<"W1", "W2">>

Coord == (0 .. WorldSize - 1) \X (0 .. WorldSize - 1)

\* building.cost.as_counter(): the resources a building costs
Cost(b) ==
    CASE b = Assimilator -> [MINERALS |-> 1, GAS |-> 0]
      [] b = "Pylon" -> [MINERALS |-> 1, GAS |-> 0]
      [] OTHER -> [MINERALS |-> 2, GAS |-> 0]

(***************************************************************************)
(* Helpers on sequences.                                                   *)
(***************************************************************************)
Range(s) == {s[k] : k \in 1 .. Len(s)}

\* all orderings of a finite set, as sequences without repetition
Permutations_(S) ==
    {p \in [1 .. Cardinality(S) -> S] : \A a, b \in 1 .. Cardinality(S) : a # b => p[a] # p[b]}

Min(a, b) == IF a < b THEN a ELSE b

IndexOf(s, x) == CHOOSE k \in 1 .. Len(s) : s[k] = x

(***************************************************************************)
(* build_dependencies (src/env.py 149-159).                                *)
(***************************************************************************)
\* np.round of the fraction num / den, den > 0, num >= 0: to the nearest
\* integer, a tie to the even one
NpRound(num, den) ==
    LET q == num \div den
        r == num % den
    IN  IF 2 * r < den THEN q
        ELSE IF 2 * r > den THEN q + 1
        ELSE IF q % 2 = 0 THEN q ELSE q + 1

\* DependencyIndex without the - 1 of line 155
DependencyIndex_NoShift(i, k) == NpRound(k * i, RandSteps)

\* np.round(random(n) * arange(n)) - 1 at 0-based position i, for the draw k / RandSteps
DependencyIndex(i, k) == NpRound(k * i, RandSteps) - 1

\* buildings = [b for b in Buildings if not isinstance(b, Assimilator)], for
\* the list bs of all buildings
NonAssimilators(bs) == {b \in Range(bs) : b # Assimilator}

\* the dependency map for one shuffle and one vector of draws; positions past
\* n = min(max_depth, len(buildings)) get None from zip_longest
DependenciesOf(bs, shuffle, draws, max_depth) ==
    LET n == Min(max_depth, Len(shuffle))
    IN  [b \in Range(bs) |->
            IF b = Assimilator THEN None
            ELSE LET i == IndexOf(shuffle, b) - 1
                 IN  IF i >= n THEN None
                     ELSE LET d == DependencyIndex(i, draws[i + 1])
                          IN  IF d < 0 THEN None ELSE shuffle[d + 1]]

\* the draws one call of random(n) can return
Draws(n) == [1 .. n -> 0 .. RandSteps - 1]

\* every (shuffle, dependency map) build_dependencies can produce
BuildDependencies(bs, max_depth) ==
    {[shuffle |-> sh, deps |-> DependenciesOf(bs, sh, dr, max_depth)] :
        sh \in Permutations_(NonAssimilators(bs)),
        dr \in Draws(Cardinality(NonAssimilators(bs)))}

(***************************************************************************)
(* build_lines (src/env.py 161-202).                                       *)
(***************************************************************************)
Line(required, building) == [required |-> required, building |-> building]

\* instructions_for: the chain of prerequisites of a building, the root first
\* and the building last (fuel bounds the recursion on a map with a cycle)
RECURSIVE InstructionsFor(_, _, _)
InstructionsFor(deps, building, fuel) ==
    IF building = None \/ fuel = 0 THEN <<>>
    ELSE Append(InstructionsFor(deps, deps[building], fuel - 1), building)

Chain(deps, building) == InstructionsFor(deps, building, Cardinality(DOMAIN deps) + 1)

\* for i in first: yield Line(False, i); yield Line(True, last)
ChainLines(inst) ==
    [k \in 1 .. Len(inst) |-> Line(k = Len(inst), inst[k])]

\* raise RuntimeError (line 172), as the element that ends what the generator
\* yielded
RuntimeError == Line(FALSE, "RuntimeError")

\* the generator raised: [*random_instructions_under(n_lines)] returns no list
Raises(ls) == ls # <<>> /\ ls[Len(ls)] = RuntimeError

\* the buildings the while loop of random_instructions_under can leave with:
\* drawn from the filtered Buildings, redrawn while len(inst) > n
Candidates(deps, n, include_assimilator) ==
    {b \in DOMAIN deps :
        /\ include_assimilator \/ b # Assimilator
        /\ Len(Chain(deps, b)) <= n}

\* RandomInstructionsUnder with include_assimilator handed on as it is (lines
\* 194-195 without the isinstance test)
RECURSIVE RandomInstructionsUnder_KeepsAssimilator(_, _, _)
RandomInstructionsUnder_KeepsAssimilator(deps, n, include_assimilator) ==
    IF n < 0 THEN {<<RuntimeError>>}
    ELSE IF n = 0 THEN {<<>>}
    ELSE UNION {
        {ChainLines(Chain(deps, b)) \o rest :
            rest \in RandomInstructionsUnder_KeepsAssimilator(
                        deps, n - Len(Chain(deps, b)), include_assimilator)} :
        b \in Candidates(deps, n, include_assimilator)}

\* RandomInstructionsUnder with the budget lowered by 1 for each building
\* drawn (n - 1 for n - len(inst) at line 193)
RECURSIVE RandomInstructionsUnder_CountsBuildings(_, _, _)
RandomInstructionsUnder_CountsBuildings(deps, n, include_assimilator) ==
    IF n < 0 THEN {<<RuntimeError>>}
    ELSE IF n = 0 THEN {<<>>}
    ELSE UNION {
        {ChainLines(Chain(deps, b)) \o rest :
            rest \in RandomInstructionsUnder_CountsBuildings(
                        deps, n - 1, include_assimilator /\ b # Assimilator)} :
        b \in Candidates(deps, n, include_assimilator)}

\* RandomInstructionsUnder without the test of lines 171-172
RECURSIVE RandomInstructionsUnder_NoBudgetCheck(_, _, _)
RandomInstructionsUnder_NoBudgetCheck(deps, n, include_assimilator) ==
    IF n <= 0 THEN {<<>>}
    ELSE UNION {
        {ChainLines(Chain(deps, b)) \o rest :
            rest \in RandomInstructionsUnder_NoBudgetCheck(
                        deps, n - Len(Chain(deps, b)),
                        include_assimilator /\ b # Assimilator)} :
        b \in Candidates(deps, n, include_assimilator)}

\* RandomInstructionsUnder with a chain that is longer than n cut to its first
\* n lines instead of redrawn (no `len(inst) > n` in the while condition)
RECURSIVE RandomInstructionsUnder_Truncates(_, _, _)
RandomInstructionsUnder_Truncates(deps, n, include_assimilator) ==
    IF n < 0 THEN {<<RuntimeError>>}
    ELSE IF n = 0 THEN {<<>>}
    ELSE UNION {
        {SubSeq(ChainLines(Chain(deps, b)), 1, Min(n, Len(Chain(deps, b)))) \o rest :
            rest \in RandomInstructionsUnder_Truncates(
                        deps, n - Min(n, Len(Chain(deps, b))),
                        include_assimilator /\ b # Assimilator)} :
        b \in {c \in DOMAIN deps : include_assimilator \/ c # Assimilator}}

\* every list random_instructions_under(n, include_assimilator) can yield;
\* n < 0 raises RuntimeError, which ends the list as its last element
RECURSIVE RandomInstructionsUnder(_, _, _)
RandomInstructionsUnder(deps, n, include_assimilator) ==
    IF n < 0 THEN {<<RuntimeError>>}
    ELSE IF n = 0 THEN {<<>>}
    ELSE UNION {
        {ChainLines(Chain(deps, b)) \o rest :
            rest \in RandomInstructionsUnder(
                        deps, n - Len(Chain(deps, b)),
                        include_assimilator /\ b # Assimilator)} :
        b \in Candidates(deps, n, include_assimilator)}

\* build_lines for a sampled n_lines
BuildLines(deps, n_lines) == RandomInstructionsUnder(deps, n_lines, TRUE)

\* required = Counter(li.building for li in lines if li.required)
Required(ls) ==
    [b \in BuildingSet |-> Cardinality({k \in 1 .. Len(ls) : ls[k].required /\ ls[k].building = b})]

(***************************************************************************)
(* place_objects (src/env.py 450-488).                                     *)
(***************************************************************************)
\* resource_locations: the in-grid tiles at offsets (1,0), (-1,0), (0,1), (0,-1)
ResourceLocations(nexus) ==
    {c \in Coord :
        \/ c[1] = nexus[1] + 1 /\ c[2] = nexus[2]
        \/ c[1] = nexus[1] - 1 /\ c[2] = nexus[2]
        \/ c[1] = nexus[1] /\ c[2] = nexus[2] + 1
        \/ c[1] = nexus[1] /\ c[2] = nexus[2] - 1}

\* random() < prob for the draw k / RandSteps and prob given in percent
RandomBelow(k, percent) == 100 * k < percent * RandSteps

\* dict(...) of the (building, coordinate) pairs in the order they are
\* yielded: a later pair for the same coordinate replaces an earlier one
RECURSIVE DictOf(_, _)
DictOf(pairs, acc) ==
    IF pairs = <<>> THEN acc
    ELSE DictOf(Tail(pairs), [acc EXCEPT ![Head(pairs)[2]] = Head(pairs)[1]])

\* Placement with every initial building left on the tile drawn for it (line
\* 487 without the isinstance test)
Placement_AssimilatorWhereDrawn(nexus, minerals, gas, with_assimilator, initial_pos, initial_buildings) ==
    [positions |-> [o \in Worker \cup Resource |->
                        IF o \in Worker THEN nexus
                        ELSE IF o = "MINERALS" THEN minerals ELSE gas],
     building_positions |->
         DictOf(<<<<Nexus, nexus>>>>
                \o (IF with_assimilator THEN <<<<Assimilator, gas>>>> ELSE <<>>)
                \o [n \in 1 .. Len(initial_pos) |-> <<initial_buildings[n], initial_pos[n]>>],
                [c \in Coord |-> None])]

\* the two dicts state_generator builds (lines 596-602) from one run of
\* place_objects: the Nexus and the workers on the tile nexus, the resources
\* on minerals and gas, an Assimilator on gas if with_assimilator, then the
\* initial buildings, an Assimilator among them on gas
Placement(nexus, minerals, gas, with_assimilator, initial_pos, initial_buildings) ==
    [positions |-> [o \in Worker \cup Resource |->
                        IF o \in Worker THEN nexus
                        ELSE IF o = "MINERALS" THEN minerals ELSE gas],
     building_positions |->
         DictOf(<<<<Nexus, nexus>>>>
                \o (IF with_assimilator THEN <<<<Assimilator, gas>>>> ELSE <<>>)
                \o [n \in 1 .. Len(initial_pos) |->
                       <<initial_buildings[n],
                         IF initial_buildings[n] = Assimilator THEN gas ELSE initial_pos[n]>>],
                [c \in Coord |-> None])]

\* every placement place_objects can yield: minerals and gas are two different
\* resource locations; the initial positions are redrawn until none of them is
\* the nexus, the minerals or the gas tile
PlaceObjects(nexus_choices, assimilator_percent, num_initial_buildings) ==
    UNION {UNION {UNION {
        {Placement(nexus, minerals, gas, RandomBelow(k, assimilator_percent),
                   initial_pos, initial_buildings) :
            k \in 0 .. RandSteps - 1,
            initial_pos \in [1 .. num_initial_buildings -> Coord \ {nexus, minerals, gas}],
            initial_buildings \in [1 .. num_initial_buildings -> BuildingSet]} :
        gas \in ResourceLocations(nexus) \ {minerals}} :
        minerals \in ResourceLocations(nexus)} :
        nexus \in nexus_choices}

(***************************************************************************)
(* Assignments and worker actions (data_types.py).                         *)
(***************************************************************************)
\* an assignment is a Resource (gather it) or a BuildOrder(building, location)
Gather(resource) == [type |-> "Resource", target |-> resource, location |-> <<0, 0>>]

BuildOrder(building, location) == [type |-> "BuildOrder", target |-> building, location |-> location]

Assignments ==
    {Gather(r) : r \in Resource} \cup {BuildOrder(b, c) : b \in BuildingSet, c \in Coord}

\* a worker action is a Movement(di, dj) or a Building
Movement(di, dj) == [type |-> "Movement", di |-> di, dj |-> dj, building |-> None]

BuildingAction(b) == [type |-> "Building", di |-> 0, dj |-> 0, building |-> b]

Sign(x) == IF x > 0 THEN 1 ELSE IF x < 0 THEN -1 ELSE 0

Abs(x) == IF x < 0 THEN -x ELSE x

\* GoTo stepping along both axes at once
GoTo_Diagonal(target, current) ==
    Movement(Sign(target[1] - current[1]), Sign(target[2] - current[2]))

\* one axis-aligned unit step from current towards target, the first axis first
GoTo(target, current) ==
    IF current[1] # target[1] THEN Movement(Sign(target[1] - current[1]), 0)
    ELSE Movement(0, Sign(target[2] - current[2]))

Distance(a, b) == Abs(a[1] - b[1]) + Abs(a[2] - b[2])

\* the Nexus tile nearest to current
Nearest(nexus_positions, current) ==
    CHOOSE n \in nexus_positions :
        \A m \in nexus_positions :
            \/ Distance(n, current) < Distance(m, current)
            \/ /\ Distance(n, current) = Distance(m, current)
               /\ (n[1] < m[1] \/ (n[1] = m[1] /\ n[2] <= m[2]))

\* assignment.action(current_position, positions, nexus_positions)
AssignmentAction(assignment, current_position, pos, nexus_positions) ==
    IF assignment.type = "BuildOrder"
    THEN IF current_position = assignment.location
         THEN BuildingAction(assignment.target)
         ELSE GoTo(assignment.location, current_position)
    ELSE IF current_position = pos[assignment.target]
         THEN GoTo(Nearest(nexus_positions, current_position), current_position)
         ELSE GoTo(pos[assignment.target], current_position)

(***************************************************************************)
(* The effects of one worker (src/env.py 677-711, 713-746).                *)
(***************************************************************************)
\* building_positions.get(coord, None), also for a coordinate off the grid
Get(bp, coord) == IF coord \in DOMAIN bp THEN bp[coord] ELSE None

\* [*building_positions]: the coordinates that hold a building
Occupied(bp) == {c \in DOMAIN bp : bp[c] # None}

\* nexus_positions = [p for p, b in building_positions.items() if isinstance(b, Nexus)]
NexusPositions(bp) == {c \in DOMAIN bp : bp[c] = Nexus}

\* DependencyInList with the check passed by every dependency
DependencyInList_Any(dependency, occupied) == TRUE

\* dependency in [*building_positions, None], where building_positions is the
\* list of occupied coordinates that line 703 passes: a Building is equal to
\* no coordinate, so a dependency is in the list only when it is None
DependencyInList(dependency, occupied) ==
    \/ dependency = None
    \/ \E c \in occupied : FALSE

\* BuildingAllowed without the Assimilator branch of lines 740-741
BuildingAllowed_NoAssimilatorBranch(building, dependency, occupied, insufficient_resources, pos, assignment_location) ==
    IF \/ insufficient_resources
       \/ assignment_location \in occupied
       \/ ~DependencyInList(dependency, occupied)
    THEN FALSE
    ELSE assignment_location \notin {pos["MINERALS"]}

\* BuildingAllowed without the tests on the tile of lines 740-746
BuildingAllowed_AnyTile(building, dependency, occupied, insufficient_resources, pos, assignment_location) ==
    ~(\/ insufficient_resources
      \/ assignment_location \in occupied
      \/ ~DependencyInList(dependency, occupied))

\* lines 725-746
BuildingAllowed(building, dependency, occupied, insufficient_resources, pos, assignment_location) ==
    IF \/ insufficient_resources
       \/ assignment_location \in occupied
       \/ ~DependencyInList(dependency, occupied)
    THEN FALSE
    ELSE IF building = Assimilator
         THEN assignment_location = pos["GAS"]
         ELSE assignment_location \notin {pos["GAS"], pos["MINERALS"]}

\* GatheredResource without the Assimilator test of lines 717-718
GatheredResource_NoAssimilator(bp, pos, resource, worker_position) ==
    pos[resource] = worker_position

\* gathered_resource (lines 713-719)
GatheredResource(bp, pos, resource, worker_position) ==
    /\ pos[resource] = worker_position
    /\ (resource # "GAS" \/ Get(bp, worker_position) = Assimilator)

\* InsufficientResources with the cost never found too high
InsufficientResources_Never(building, res) == FALSE

\* lines 697-699, bool(building.cost.as_counter() - resources): some resource
\* of the cost exceeds what is available
InsufficientResources(building, res) ==
    \E r \in Resource : Cost(building)[r] > res[r]

\* resources -= cost on Counters: the counts that stay positive, else 0
CounterSub(res, cost) ==
    [r \in Resource |-> IF res[r] - cost[r] > 0 THEN res[r] - cost[r] ELSE 0]

\* Construct with the cost taken whether or not the building is allowed
Construct_AlwaysPays(bp, res, allowed, worker_position, building) ==
    [building_positions |-> IF allowed THEN [bp EXCEPT ![worker_position] = building] ELSE bp,
     resources |-> CounterSub(res, Cost(building))]

\* lines 700-709: if building_allowed(...), the building goes on the worker's
\* tile and its cost comes off the resources; else nothing changes
Construct(bp, res, allowed, worker_position, building) ==
    IF allowed
    THEN [building_positions |-> [bp EXCEPT ![worker_position] = building],
          resources |-> CounterSub(res, Cost(building))]
    ELSE [building_positions |-> bp, resources |-> res]

\* the body of the loop over the workers for one worker; w holds positions,
\* building_positions and resources, and the record of the tick: its
\* movements and its construction attempts, each with its turn in the loop
\* and the dicts before and after it
ResolveWorker(w, worker_id, assignment, nexus_positions, deps) ==
    LET worker_position == w.positions[worker_id]
        worker_action ==
            AssignmentAction(assignment, worker_position, w.positions, nexus_positions)
    IN  IF worker_action.type = "Movement"
        THEN LET new_position ==
                     <<worker_position[1] + worker_action.di,
                       worker_position[2] + worker_action.dj>>
                 pos2 == [w.positions EXCEPT ![worker_id] = new_position]
                 res2 ==
                     IF Get(w.building_positions, new_position) = Nexus
                     THEN [r \in Resource |->
                             IF GatheredResource(w.building_positions, pos2, r, worker_position)
                             THEN w.resources[r] + 1 ELSE w.resources[r]]
                     ELSE w.resources
             IN  [w EXCEPT
                    !.positions = pos2,
                    !.resources = res2,
                    !.moves = Append(w.moves,
                        [worker |-> worker_id,
                         turn |-> Len(w.moves) + Len(w.attempts) + 1,
                         from |-> worker_position,
                         to |-> new_position,
                         building_positions |-> w.building_positions,
                         before |-> w.resources,
                         after |-> res2])]
        ELSE LET building == worker_action.building
                 insufficient_resources == InsufficientResources(building, w.resources)
                 allowed ==
                     BuildingAllowed(building, deps[building], Occupied(w.building_positions),
                                     insufficient_resources, w.positions, assignment.location)
                 built == Construct(w.building_positions, w.resources, allowed,
                                    worker_position, building)
             IN  [w EXCEPT
                    !.building_positions = built.building_positions,
                    !.resources = built.resources,
                    !.attempts = Append(w.attempts,
                        [worker |-> worker_id,
                         turn |-> Len(w.moves) + Len(w.attempts) + 1,
                         building |-> building,
                         location |-> assignment.location,
                         tile |-> worker_position,
                         before |-> [building_positions |-> w.building_positions,
                                     resources |-> w.resources],
                         after |-> built,
                         allowed |-> allowed])]

\* ResolutionOrder without the sort: the order of the dict
ResolutionOrder_DictOrder(asg) == Workers

\* sorted(assignments.items(), key=lambda w: isinstance(w[1], BuildOrder)):
\* the gatherers in the order of the dict, then the builders in that order
ResolutionOrder(asg) ==
    LET IsGatherer(x) == asg[x].type # "BuildOrder"
        IsBuilder(x) == asg[x].type = "BuildOrder"
    IN  SelectSeq(Workers, IsGatherer) \o SelectSeq(Workers, IsBuilder)

RECURSIVE ResolveAll(_, _, _, _, _)
ResolveAll(w, order, asg, nexus_positions, deps) ==
    IF order = <<>> THEN w
    ELSE ResolveAll(ResolveWorker(w, Head(order), asg[Head(order)], nexus_positions, deps),
                    Tail(order), asg, nexus_positions, deps)

(***************************************************************************)
(* CompoundAction (data_types.py): a worker-target sub-action followed by  *)
(* an i-j sub-action; complete (is_op) once both are in.                   *)
(***************************************************************************)
\* self.compound_action(): the empty compound action
CompoundAction == [stage |-> 0, worker |-> None, target |-> None, location |-> <<0, 0>>, ptr |-> 0]

IsOp(a) == a.stage = 2

\* action.update(raw): fold one raw sub-action in; after a complete action the
\* next raw action starts a new one
Update(a, raw) ==
    IF a.stage = 1
    THEN [a EXCEPT !.stage = 2, !.location = raw.location, !.ptr = raw.ptr]
    ELSE [stage |-> 1, worker |-> raw.worker, target |-> raw.target,
          location |-> <<0, 0>>, ptr |-> raw.ptr]

\* action.assignment()
ActionAssignment(a) ==
    IF a.target \in Resource THEN Gather(a.target) ELSE BuildOrder(a.target, a.location)

(***************************************************************************)
(* The configuration and the inputs the model follows.                     *)
(***************************************************************************)
\* --assimilator_prob, in percent
AssimilatorProb == 50

\* --num_initial_buildings
NumInitialBuildings == 0

\* curriculum_setting.level
Level == 1

\* reward_generator: the constant reward, in tenths
Reward == -1

\* curriculum_setting.max_build_tree_depth
MaxBuildTreeDepth == 2

\* the values curriculum_setting.n_lines_space.sample() returns
NLinesSpace == 1 .. MaxLines

\* the tiles self.random.choice(self.world_size, size=2) is followed on
NexusChoices == {<<0, 0>>}

\* the raw actions step() is called with: the worker-target pairs (W1 is sent
\* anywhere, W2 only after minerals, its initial assignment), the i-j tiles
\* and the ptr
WorkerTargetInputs ==
    {<<"W1", g>> : g \in Resource \cup BuildingSet} \cup {<<"W2", "MINERALS">>}

IJInputs == {<<0, 1>>, <<1, 1>>}

PtrInputs == {MaxLines - 1}

\* the raw actions that can follow the compound action a, with the
\* worker-target pairs drawn from worker_targets
RawActionsOf(a, worker_targets) ==
    IF a.stage = 1
    THEN {[worker |-> None, target |-> None, location |-> c, ptr |-> p] :
            c \in IJInputs, p \in PtrInputs}
    ELSE {[worker |-> wt[1], target |-> wt[2], location |-> <<0, 0>>, ptr |-> p] :
            wt \in worker_targets, p \in PtrInputs}

RawActions(a) == RawActionsOf(a, WorkerTargetInputs)

\* the worker-target pairs of the episodes in which both workers build: W1
\* is sent after every building, W2 after minerals and the Assimilator
BuilderInputs ==
    {<<"W1", b>> : b \in BuildingSet} \cup {<<"W2", "MINERALS">>, <<"W2", Assimilator>>}

(***************************************************************************)
(* The state.                                                              *)
(***************************************************************************)
VARIABLES
    evaluating,             \* self.evaluating
    destroy_building_prob,  \* self.destroy_building_prob, in percent
    eval_steps,             \* self.eval_steps
    i,                      \* self.i: the number of calls of reset()
    iterator,               \* self.iterator: None before the first reset()
    dependencies,           \* srti_generator: dependencies
    lines,                  \* srti_generator: lines
    positions,              \* state_generator: positions
    building_positions,     \* state_generator: building_positions
    assignments,            \* state_generator: assignments
    next_actions,           \* state_generator: next_actions
    resources,              \* state_generator: resources
    ptr,                    \* state_generator: ptr
    time_remaining,         \* state_generator: time_remaining
    state,                  \* srti_generator: state, its fields that are no dicts
    t,                      \* srti_generator: t, the done flag last computed
    info,                   \* the info mapping the last call returned
    raised,                 \* the exception the last call raised, None if it returned
    op,                     \* what the last call did: reset, partial or tick
    attempts,               \* the construction attempts of the last tick, in order
    moves,                  \* the movements of the last tick, in order
    gen                     \* the last run of the generators on their own

vars ==
    <<evaluating, destroy_building_prob, eval_steps, i, iterator, dependencies, lines, positions,
      building_positions, assignments, next_actions, resources, ptr, time_remaining,
      state, t, info, raised, op, attempts, moves, gen>>

config == <<evaluating, destroy_building_prob, eval_steps>>

episode ==
    <<i, iterator, dependencies, lines, positions, building_positions, assignments,
      next_actions, resources, ptr, time_remaining, state, t, info, raised, op,
      attempts, moves>>

(***************************************************************************)
(* state_generator (src/env.py 593-711).                                   *)
(***************************************************************************)
\* Destructions with every draw counted as below destroy_building_prob
Destructions_IgnoresProb(bp, percent) ==
    {[c \in Coord |-> IF c \in destroy_coords THEN None ELSE bp[c]] :
        destroy_coords \in SUBSET {c \in Coord : bp[c] # None /\ bp[c] # Nexus}}

\* Destructions without the test `not isinstance(b, Nexus)` of line 623
Destructions_NexusToo(bp, percent) ==
    LET candidates == {c \in Coord : bp[c] # None}
        can_go == \E k \in 0 .. RandSteps - 1 : RandomBelow(k, percent)
        can_stay == \E k \in 0 .. RandSteps - 1 : ~RandomBelow(k, percent)
    IN  {[c \in Coord |-> IF c \in destroy_coords THEN None ELSE bp[c]] :
            destroy_coords \in {D \in SUBSET candidates :
                                    /\ D # {} => can_go
                                    /\ D # candidates => can_stay}}

\* lines 619-628: each building that is no Nexus goes when its draw of
\* random() is below destroy_building_prob; every outcome of the draws
Destructions(bp, percent) ==
    LET candidates == {c \in Coord : bp[c] # None /\ bp[c] # Nexus}
        can_go == \E k \in 0 .. RandSteps - 1 : RandomBelow(k, percent)
        can_stay == \E k \in 0 .. RandSteps - 1 : ~RandomBelow(k, percent)
    IN  {[c \in Coord |-> IF c \in destroy_coords THEN None ELSE bp[c]] :
            destroy_coords \in {D \in SUBSET candidates :
                                    /\ D # {} => can_go
                                    /\ D # candidates => can_stay}}

\* Counter(building_positions.values())
Standing(bp) == [b \in BuildingSet |-> Cardinality({c \in DOMAIN bp : bp[c] = b})]

\* Success on the kinds of buildings, not on their counts
Success_AnyOfEach(ls, bp) ==
    \A b \in BuildingSet : Required(ls)[b] > 0 => Standing(bp)[b] > 0

\* success = not required - Counter(building_positions.values())
Success(ls, bp) == \A b \in BuildingSet : Required(ls)[b] - Standing(bp)[b] <= 0

\* lines 658-663: next_actions[worker_id] = assignment.action(...)
NextActions(asg, pos, bp) ==
    [w \in Worker |-> AssignmentAction(asg[w], pos[w], pos, NexusPositions(bp))]

\* InitialTime without the 1 + of line 615
InitialTime_NoPlusOne(ls) ==
    IF evaluating THEN eval_steps - 1 ELSE Len(ls) * TimePerLine

\* lines 612-616
InitialTime(ls) ==
    IF evaluating THEN eval_steps - 1 ELSE (1 + Len(ls)) * TimePerLine

\* done_generator (lines 225-231): state.success or not state.time_remaining
Done(st) == st.success \/ st.time_remaining = 0

\* f"len-{len(lines)} success"
LenKey(n) == "len-" \o ToString(n) \o " success"

\* for key in keys: info[f"{key}{bucket}"] = info[key]; a key that info does
\* not hold raises KeyError
RECURSIVE Bucketed(_, _, _)
Bucketed(inf, keys, bucket) ==
    IF keys = <<>> THEN [info |-> inf, raised |-> None]
    ELSE IF Head(keys) \notin DOMAIN inf THEN [info |-> inf, raised |-> "KeyError"]
    ELSE Bucketed(((Head(keys) \o ToString(bucket)) :> inf[Head(keys)]) @@ inf,
                  Tail(keys), bucket)

\* info_generator (lines 309-340) for one (state, done): the mapping it yields,
\* with float(True) = 1 and float(False) = 0, or the exception it raises
InfoGenerator(st, done, ls) ==
    IF ~done THEN [info |-> << >>, raised |-> None]
    ELSE LET success == IF st.success THEN 1 ELSE 0
             base == ("success" :> success)
                     @@ (LenKey(Len(ls)) :> success)
                     @@ ("len(instruction)" :> Len(ls))
                     @@ ("curriculum+success" :> Level + success)
             train_time_success == IF st.success THEN st.time_remaining ELSE 0
             eval == ("train_time_success" :> train_time_success) @@ base
         IN  IF ~evaluating THEN [info |-> base, raised |-> None]
             ELSE IF ~(success <= train_time_success)
                  THEN [info |-> eval, raised |-> "AssertionError"]
             ELSE Bucketed(eval,
                           <<"success", "train_time_success", "normalized_elapsed_time">>,
                           10 * (Len(ls) \div 10))

\* failure_buffer_wrapper (lines 279-304) around one (r, t, i) of
\* srti_generator, with use_failure_buf = False (0)
FailureBufferWrapper(done, inf) ==
    IF done
    THEN ("use_failure_buf" :> 0)
         @@ ("success_without_failure_buf" :> inf["success"])
         @@ ("reward_without_failure_buf" :> Reward)
         @@ inf
    ELSE ("reward_without_failure_buf" :> Reward) @@ inf

\* lines 567-570 and 279-304: what a call returns for the State st, or what it
\* raises; an exception leaves both generators finished
Returned(st, ls) ==
    LET yielded == InfoGenerator(st, Done(st), ls)
    IN  IF yielded.raised # None THEN [info |-> << >>, raised |-> yielded.raised]
        ELSE [info |-> FailureBufferWrapper(Done(st), yielded.info), raised |-> None]

\* Emit with lines 658-663 run before the workers' effects: after a complete
\* action next_actions are taken at the positions and buildings the tick
\* started with
Emit_NextActionsBeforeEffects(deps, ls, pos, bp, asg, res, p, tr, act) ==
    /\ dependencies' = deps
    /\ lines' = ls
    /\ positions' = pos
    /\ building_positions' = bp
    /\ assignments' = asg
    /\ next_actions' = IF IsOp(act)
                       THEN NextActions(asg, positions, building_positions)
                       ELSE NextActions(asg, pos, bp)
    /\ resources' = res
    /\ ptr' = p
    /\ time_remaining' = tr
    /\ state' = [success |-> Success(ls, bp), pointer |-> p, action |-> act,
                 time_remaining |-> tr]
    /\ t' = Done(state')
    /\ info' = Returned(state', ls).info
    /\ raised' = Returned(state', ls).raised

\* the State yielded at the top of the loop and what srti_generator makes of it
\* (lines 566-570): common to reset() and to a step that advances the simulator
Emit(deps, ls, pos, bp, asg, res, p, tr, act) ==
    /\ dependencies' = deps
    /\ lines' = ls
    /\ positions' = pos
    /\ building_positions' = bp
    /\ assignments' = asg
    /\ next_actions' = NextActions(asg, pos, bp)
    /\ resources' = res
    /\ ptr' = p
    /\ time_remaining' = tr
    /\ state' = [success |-> Success(ls, bp), pointer |-> p, action |-> act,
                 time_remaining |-> tr]
    /\ t' = Done(state')
    /\ info' = Returned(state', ls).info
    /\ raised' = Returned(state', ls).raised

(***************************************************************************)
(* reset (src/env.py 501-505): a new srti_generator run up to its first    *)
(* yield.                                                                  *)
(***************************************************************************)
\* lines 535-538: every (dependencies, lines) pair the two generators give
\* under the curriculum setting
Tasks ==
    UNION {UNION {{[dependencies |-> d.deps, lines |-> ls] :
                        ls \in BuildLines(d.deps, n_lines)} :
                    n_lines \in NLinesSpace} :
            d \in BuildDependencies(Buildings, MaxBuildTreeDepth)}

\* line 596: every outcome of place_objects under the configuration
Placements == PlaceObjects(NexusChoices, AssimilatorProb, NumInitialBuildings)

\* followed as the first call and after a tick that ended an episode with
\* success as the clock ran out
ResetOn(placements) ==
    /\ iterator = None \/ (t /\ state.time_remaining = 0 /\ state.success /\ op = "tick")
    /\ i < MaxResets
    /\ i' = i + 1
    /\ \E task \in Tasks, pl \in placements :
        \E bp \in Destructions(pl.building_positions, destroy_building_prob) :
            /\ iterator' = "srti_generator"
            /\ Emit(task.dependencies, task.lines, pl.positions, bp,
                    [w \in Worker |-> Gather("MINERALS")],
                    [r \in Resource |-> 0], 0, InitialTime(task.lines), CompoundAction)
            /\ op' = "reset"
            /\ attempts' = <<>>
            /\ moves' = <<>>
            /\ UNCHANGED <<config, gen>>

Reset == ResetOn(Placements)

\* the largest --num_initial_buildings followed
MaxInitialBuildings == 1

\* reset() of an environment made with --num_initial_buildings at
\* MaxInitialBuildings
ResetPlaced == ResetOn(PlaceObjects(NexusChoices, AssimilatorProb, MaxInitialBuildings))

(***************************************************************************)
(* step (src/env.py 748-751) into srti_generator (lines 580-587).          *)
(***************************************************************************)
\* StepPartial with the check of self.evaluating at line 586 dropped
StepPartial_NoEvaluatingCheck ==
    /\ iterator # None
    /\ raised = None
    /\ time_remaining > -ExtraSteps
    /\ \E a \in RawActions(state.action) :
        LET action == Update(state.action, a)
        IN  /\ ~IsOp(action)
            /\ state' = [state EXCEPT !.action = action, !.time_remaining = @ - 1]
            /\ t' = Done(state')
            /\ info' = Returned(state', lines).info
            /\ raised' = Returned(state', lines).raised
    /\ op' = "partial"
    /\ UNCHANGED <<config, gen, iterator, dependencies, lines, positions,
                   building_positions, assignments, next_actions, resources, ptr,
                   time_remaining, attempts, moves, i>>

\* the raw action leaves the compound action incomplete: only the State held
\* by srti_generator is replaced
StepPartialOn(worker_targets) ==
    /\ iterator # None
    /\ raised = None
    /\ time_remaining > -ExtraSteps
    /\ \E a \in RawActionsOf(state.action, worker_targets) :
        LET action == Update(state.action, a)
        IN  /\ ~IsOp(action)
            /\ state' = [state EXCEPT
                            !.action = action,
                            !.time_remaining = IF evaluating THEN @ - 1 ELSE @]
            /\ t' = Done(state')
            /\ info' = Returned(state', lines).info
            /\ raised' = Returned(state', lines).raised
    /\ op' = "partial"
    /\ UNCHANGED <<config, gen, iterator, dependencies, lines, positions,
                   building_positions, assignments, next_actions, resources, ptr,
                   time_remaining, attempts, moves, i>>

\* StepTick without `time_remaining -= 1` (line 669)
StepTick_NoCountdown ==
    /\ iterator # None
    /\ raised = None
    /\ time_remaining > -ExtraSteps
    /\ \E a \in RawActions(state.action) :
        LET action == Update(state.action, a)
            asg == [assignments EXCEPT ![action.worker] = ActionAssignment(action)]
            w == ResolveAll([positions |-> positions,
                             building_positions |-> building_positions,
                             resources |-> resources,
                             attempts |-> <<>>, moves |-> <<>>],
                            ResolutionOrder(asg), asg,
                            NexusPositions(building_positions), dependencies)
        IN  /\ IsOp(action)
            /\ \E bp \in Destructions(w.building_positions, destroy_building_prob) :
                Emit(dependencies, lines, w.positions, bp, asg, w.resources,
                     action.ptr, time_remaining, action)
            /\ attempts' = w.attempts
            /\ moves' = w.moves
    /\ op' = "tick"
    /\ UNCHANGED <<config, gen, iterator, i>>

\* StepTick with line 670 written as an assignment to every worker
StepTick_AssignsEveryWorker ==
    /\ iterator # None
    /\ raised = None
    /\ time_remaining > -ExtraSteps
    /\ \E a \in RawActions(state.action) :
        LET action == Update(state.action, a)
            asg == [w \in Worker |-> ActionAssignment(action)]
            w == ResolveAll([positions |-> positions,
                             building_positions |-> building_positions,
                             resources |-> resources,
                             attempts |-> <<>>, moves |-> <<>>],
                            ResolutionOrder(asg), asg,
                            NexusPositions(building_positions), dependencies)
        IN  /\ IsOp(action)
            /\ \E bp \in Destructions(w.building_positions, destroy_building_prob) :
                Emit(dependencies, lines, w.positions, bp, asg, w.resources,
                     action.ptr, time_remaining - 1, action)
            /\ attempts' = w.attempts
            /\ moves' = w.moves
    /\ op' = "tick"
    /\ UNCHANGED <<config, gen, iterator, i>>

StepPartial == StepPartialOn(WorkerTargetInputs)

\* an incomplete action in the episodes in which both workers build
StepPartialBuilders == StepPartialOn(BuilderInputs)

\* the raw action completes the compound action: state_generator runs from its
\* yield (line 667) through the workers' effects and the destruction step to
\* the next yield
StepTick ==
    /\ iterator # None
    /\ raised = None
    /\ time_remaining > -ExtraSteps
    /\ \E a \in RawActions(state.action) :
        LET action == Update(state.action, a)
            asg == [assignments EXCEPT ![action.worker] = ActionAssignment(action)]
            w == ResolveAll([positions |-> positions,
                             building_positions |-> building_positions,
                             resources |-> resources,
                             attempts |-> <<>>, moves |-> <<>>],
                            ResolutionOrder(asg), asg,
                            NexusPositions(building_positions), dependencies)
        IN  /\ IsOp(action)
            /\ \E bp \in Destructions(w.building_positions, destroy_building_prob) :
                Emit(dependencies, lines, w.positions, bp, asg, w.resources,
                     action.ptr, time_remaining - 1, action)
            /\ attempts' = w.attempts
            /\ moves' = w.moves
    /\ op' = "tick"
    /\ UNCHANGED <<config, gen, iterator, i>>

\* step() with nothing to send to: before the first reset() self.iterator is
\* None (AttributeError at line 751); after an exception the generators are
\* finished and send raises StopIteration
StepFails ==
    /\ iterator = None \/ raised # None
    /\ raised' = IF iterator = None THEN "AttributeError" ELSE "StopIteration"
    /\ info' = << >>
    /\ op' = "step"
    /\ UNCHANGED <<config, gen, iterator, dependencies, lines, positions,
                   building_positions, assignments, next_actions, resources, ptr,
                   time_remaining, state, t, attempts, moves, i>>

(***************************************************************************)
(* The generators on their own: build_dependencies and build_lines for     *)
(* every max_depth and every sampled line count.                           *)
(***************************************************************************)
\* the largest max_depth and line count tried
MaxDepthGen == 3

MaxLinesGen == 3

\* the generators are followed on a list of buildings one longer than the
\* episodes' list
GenBuildings == Buildings \o <<"Gateway">>

NoGen ==
    [max_depth |-> 0, buildings |-> <<>>, dependencies |-> [b \in Range(GenBuildings) |-> None],
     called |-> FALSE, n_lines |-> 0, lines |-> <<>>, raised |-> None]

GenDependencies ==
    /\ gen = NoGen
    /\ \E max_depth \in 0 .. MaxDepthGen :
        \E d \in BuildDependencies(GenBuildings, max_depth) :
            gen' = [NoGen EXCEPT !.max_depth = max_depth, !.buildings = d.shuffle,
                                 !.dependencies = d.deps]
    /\ UNCHANGED <<config, episode>>

\* build_lines for a line count sampled from -1 .. MaxLinesGen
GenLines ==
    /\ gen.buildings # <<>>
    /\ ~gen.called
    /\ \E n_lines \in -1 .. MaxLinesGen :
        \E ls \in BuildLines(gen.dependencies, n_lines) :
            gen' = [gen EXCEPT !.called = TRUE,
                               !.n_lines = n_lines,
                               !.lines = IF Raises(ls) THEN <<>> ELSE ls,
                               !.raised = IF Raises(ls) THEN "RuntimeError" ELSE None]
    /\ UNCHANGED <<config, episode>>

(***************************************************************************)
(* The specifications.                                                     *)
(***************************************************************************)
Init ==
    /\ evaluating \in BOOLEAN
    /\ destroy_building_prob \in {0, 50}
    /\ eval_steps \in IF evaluating THEN {1, EvalSteps} ELSE {EvalSteps}
    /\ i = 0
    /\ iterator = None
    /\ dependencies = [b \in BuildingSet |-> None]
    /\ lines = <<>>
    /\ positions = [o \in Worker \cup Resource |-> <<0, 0>>]
    /\ building_positions = [c \in Coord |-> None]
    /\ assignments = [w \in Worker |-> Gather("MINERALS")]
    /\ next_actions = [w \in Worker |-> Movement(0, 0)]
    /\ resources = [r \in Resource |-> 0]
    /\ ptr = 0
    /\ time_remaining = 0
    /\ state = [success |-> FALSE, pointer |-> 0, action |-> CompoundAction,
                time_remaining |-> 0]
    /\ t = FALSE
    /\ info = << >>
    /\ raised = None
    /\ op = "init"
    /\ attempts = <<>>
    /\ moves = <<>>
    /\ gen = NoGen

Next == Reset \/ StepPartial \/ StepTick \/ StepFails

Spec == Init /\ [][Next]_vars

\* the episodes in which both workers build
NextBuilders == Reset \/ StepPartialBuilders \/ StepTick \/ StepFails

SpecBuilders == Init /\ [][NextBuilders]_vars

\* the episodes that start with initial buildings
NextPlaced == ResetPlaced \/ StepPartial \/ StepTick \/ StepFails

InitPlaced == Init /\ destroy_building_prob = 0

SpecPlaced == InitPlaced /\ [][NextPlaced]_vars

NextGen == GenDependencies \/ GenLines

InitGen == Init /\ ~evaluating /\ destroy_building_prob = 0

SpecGen == InitGen /\ [][NextGen]_vars

(***************************************************************************)
(* The claims.                                                             *)
(***************************************************************************)
\* the fields of the State other than action and time_remaining; the dicts
\* are shared with state_generator, so the State reads the variables
StateFrame ==
    /\ state'.success = state.success
    /\ state'.pointer = state.pointer
    /\ UNCHANGED <<positions, next_actions>>

Covers(a) == \A r \in Resource : Cost(a.building)[r] <= a.before.resources[r]

TileFree(a) == a.before.building_positions[a.tile] = None

DependencyStanding(a) ==
    \/ dependencies[a.building] = None
    \/ \E c \in Coord : a.before.building_positions[c] = dependencies[a.building]

TileFits(a) ==
    IF a.building = Assimilator
    THEN a.tile = positions["GAS"]
    ELSE a.tile \notin {positions["GAS"], positions["MINERALS"]}

Placed(a) ==
    /\ a.after.building_positions = [a.before.building_positions EXCEPT ![a.tile] = a.building]
    /\ \A r \in Resource : a.after.resources[r] = a.before.resources[r] - Cost(a.building)[r]

Untouched(a) == a.after = a.before

Attempts == {attempts[k] : k \in 1 .. Len(attempts)}

\* C2: a worker's Building action places the building on the worker's tile
\* and takes its cost off the resources if and only if the cost is covered,
\* the tile holds no building, the dependency is None or standing, and the
\* tile is the gas tile for an Assimilator and neither the gas nor the
\* minerals tile for any other building
C2_Gating ==
    \A a \in Attempts :
        /\ Placed(a) <=> (Covers(a) /\ TileFree(a) /\ DependencyStanding(a) /\ TileFits(a))
        /\ ~Placed(a) => Untouched(a)

\* C3: a construct action by a worker on a tile without a building, with the
\* cost covered and the dependency None or standing, puts the building on
\* that tile and takes exactly its cost off the resources
C3_Construction ==
    \A a \in Attempts :
        (TileFree(a) /\ Covers(a) /\ DependencyStanding(a)) => Placed(a)

\* C4: an attempt that is not allowed changes neither building_positions nor
\* resources and keeps the worker's assignment, so that at the next tick that
\* commands another worker the same worker attempts the same building on the
\* same tile again
C4_FailedAttempt ==
    [][op' = "tick" =>
        /\ \A a \in Attempts' :
              ~a.allowed =>
                  /\ Untouched(a)
                  /\ assignments'[a.worker] = BuildOrder(a.building, a.location)
        /\ \A a \in Attempts :
              (~a.allowed /\ state'.action.worker # a.worker) =>
                  \E b \in Attempts' :
                      /\ b.worker = a.worker
                      /\ b.building = a.building
                      /\ b.tile = a.tile]_vars

\* a tick that commanded W2 while W1 was turned down for want of minerals only
C4_Witness ==
    /\ op = "tick"
    /\ state.action.worker = "W2"
    /\ \E a \in Attempts :
        /\ a.worker = "W1"
        /\ ~a.allowed
        /\ ~Covers(a) /\ TileFree(a) /\ TileFits(a) /\ dependencies[a.building] = None
        /\ a.before.resources["MINERALS"] > 0
        /\ resources = a.before.resources

\* C5: no attempt places a building whose dependency is not None unless the
\* dependency stands in building_positions when the attempt is resolved
C5_DependencyGate ==
    \A a \in Attempts :
        (a.allowed /\ dependencies[a.building] # None) =>
            \E c \in Coord : a.before.building_positions[c] = dependencies[a.building]

\* an attempt turned down for its missing dependency alone
C5_Witness ==
    \E a \in Attempts :
        /\ dependencies[a.building] # None
        /\ ~DependencyStanding(a)
        /\ Covers(a) /\ TileFree(a) /\ TileFits(a)
        /\ ~a.allowed
        /\ Untouched(a)

\* C6 as stated: an Assimilator attempt succeeds if and only if its tile is
\* the gas tile
C6_Original ==
    \A a \in Attempts :
        a.building = Assimilator => (a.allowed <=> a.tile = positions["GAS"])

\* C6 amended: an Assimilator attempt succeeds only on the gas tile, whatever
\* the resources; on the gas tile it succeeds if and only if the cost is
\* covered and the tile holds no building
C6_AssimilatorTile ==
    \A a \in Attempts :
        a.building = Assimilator =>
            /\ a.allowed => a.tile = positions["GAS"]
            /\ a.tile = positions["GAS"] => (a.allowed <=> (Covers(a) /\ TileFree(a)))
            /\ a.allowed <=> Placed(a)

\* an Assimilator turned down on a free tile that is not the gas tile, with
\* the cost covered
C6_Witness ==
    \E a \in Attempts :
        /\ a.building = Assimilator
        /\ a.tile # positions["GAS"]
        /\ Covers(a) /\ TileFree(a)
        /\ ~a.allowed

\* C7: with destroy_building_prob = 0, a State with success = true is
\* followed within its episode only by States with success = true
C7_SuccessStays ==
    [][(/\ iterator # None
        /\ destroy_building_prob = 0
        /\ state.success
        /\ op' # "reset") => state'.success]_vars

\* success that outlived a tick: a required Pylon stands, and the last tick,
\* with the clock below zero, placed nothing
C7_Witness ==
    /\ destroy_building_prob = 0
    /\ op = "tick"
    /\ state.success
    /\ time_remaining < 0
    /\ Required(lines)["Pylon"] > 0
    /\ \A a \in Attempts : ~a.allowed

\* a call that ran srti_generator through its loop: reset() or a step() into
\* a live generator
Called == iterator # None /\ op \in {"reset", "partial", "tick"}

\* C8: with destroy_building_prob = 0, as long as the required buildings are
\* not complete, done = True is reported exactly on the States whose
\* time_remaining is 0, and on none with time left
C8_TimeExhaustion ==
    (Called /\ destroy_building_prob = 0 /\ ~state.success) =>
        ((raised = None /\ t) <=> state.time_remaining = 0)

\* the building k dependency pointers after b
RECURSIVE Follow(_, _, _)
Follow(deps, b, k) ==
    IF b = None \/ k = 0 THEN b ELSE Follow(deps, deps[b], k - 1)

\* C9: in every map build_dependencies produces the Assimilator has no
\* dependency, the dependency of a shuffled building is None or comes
\* earlier in the shuffle, and the pointers from any building reach None
C9_Forest ==
    gen.buildings # <<>> =>
        /\ gen.dependencies[Assimilator] = None
        /\ \A k \in 1 .. Len(gen.buildings) :
              \/ gen.dependencies[gen.buildings[k]] = None
              \/ \E j \in 1 .. k - 1 : gen.buildings[j] = gen.dependencies[gen.buildings[k]]
        /\ \A b \in DOMAIN gen.dependencies :
              Follow(gen.dependencies, b, Len(GenBuildings)) = None

\* a map with a chain of three buildings
C9_Witness ==
    /\ gen.buildings # <<>>
    /\ \E b \in DOMAIN gen.dependencies :
        /\ gen.dependencies[b] # None
        /\ gen.dependencies[gen.dependencies[b]] # None

\* C10: a line list build_lines returns has at most one line that is
\* required and names the Assimilator
C10_OneRequiredAssimilator ==
    Cardinality({k \in 1 .. Len(gen.lines) :
                    gen.lines[k].required /\ gen.lines[k].building = Assimilator}) <= 1

\* a full list that opens with the required Assimilator
C10_Witness ==
    /\ Len(gen.lines) = MaxLinesGen
    /\ gen.lines[1] = Line(TRUE, Assimilator)
    /\ \A k \in 2 .. Len(gen.lines) : gen.lines[k].building # Assimilator

C12_Done ==
    (Called /\ raised = None) =>
        (t <=> (state.success \/ state.time_remaining <= 0))

\* C13: in every State success is true if and only if, of each building, at
\* least as many stand after the destruction step as required lines name it
C13_Success ==
    iterator # None =>
        (state.success <=>
            \A b \in BuildingSet :
                Cardinality({c \in Coord : building_positions[c] = b})
                    >= Cardinality({k \in 1 .. Len(lines) :
                                        lines[k].required /\ lines[k].building = b}))

\* two required lines name the Pylon and a tick has placed the first one
C13_Witness ==
    /\ op = "tick"
    /\ ~state.success
    /\ Required(lines)["Pylon"] = 2
    /\ Standing(building_positions)["Pylon"] = 1
    /\ \E a \in Attempts : a.allowed /\ a.building = "Pylon"

Moves == {moves[k] : k \in 1 .. Len(moves)}

\* the resources as the turn k of a tick left them, for the movements mv and
\* the attempts at of the tick and the resources start it began with
ResourcesAfter(mv, at, start, k) ==
    IF k = 0 THEN start
    ELSE IF \E m \in Range(mv) : m.turn = k
         THEN (CHOOSE m \in Range(mv) : m.turn = k).after
         ELSE (CHOOSE a \in Range(at) : a.turn = k).after.resources

\* C14: within a tick every worker with a gather assignment is resolved
\* before every worker with a BuildOrder, and a construction attempt is
\* decided on the resources as the turns before it left them, so on what the
\* gatherers deposited in this tick
C14_GatherFirst ==
    [][op' = "tick" =>
        /\ \A w1, w2 \in Worker :
              (assignments'[w1].type = "Resource" /\ assignments'[w2].type = "BuildOrder") =>
                  \A x \in Moves' \cup Attempts', y \in Moves' \cup Attempts' :
                      (x.worker = w1 /\ y.worker = w2) => x.turn < y.turn
        /\ \A a \in Attempts' :
              /\ a.before.resources = ResourcesAfter(moves', attempts', resources, a.turn - 1)
              /\ a.allowed => ~InsufficientResources(a.building, a.before.resources)]_vars

\* a gatherer's deposit paid for a building placed in the same tick
C14_Witness ==
    /\ op = "tick"
    /\ \E m \in Moves, a \in Attempts :
        /\ assignments[m.worker].type = "Resource"
        /\ m.after["MINERALS"] = m.before["MINERALS"] + 1
        /\ InsufficientResources(a.building, m.before)
        /\ m.turn < a.turn
        /\ a.allowed

\* C15: a Movement adds 1 to a resource exactly when it lands on a Nexus tile
\* from the tile of that resource, for GAS only with an Assimilator on the gas
\* tile; in every other case it leaves the count as it was
C15_Gathering ==
    \A m \in Moves : \A r \in Resource :
        m.after[r] =
            IF /\ Get(m.building_positions, m.to) = Nexus
               /\ m.from = positions[r]
               /\ r = "GAS" => Get(m.building_positions, positions["GAS"]) = Assimilator
            THEN m.before[r] + 1
            ELSE m.before[r]

\* a tick in which one worker brought gas in and another left the Nexus tile
\* without a gain
C15_Witness ==
    /\ op = "tick"
    /\ \E m \in Moves : m.after["GAS"] = m.before["GAS"] + 1
    /\ \E m \in Moves : m.after = m.before /\ m.from # m.to

\* C16: no step removes a Nexus, and every State has a Nexus standing, so
\* that nexus_positions is not empty
C16_NexusStands ==
    [][/\ iterator' # None => NexusPositions(building_positions') # {}
       /\ op' # "reset" =>
             \A c \in Coord : building_positions[c] = Nexus => building_positions'[c] = Nexus]_vars

\* a tick whose destruction step took a building placed in the same tick
C16_Witness ==
    /\ op = "tick"
    /\ destroy_building_prob > 0
    /\ \E a \in Attempts : a.allowed /\ building_positions[a.tile] = None
    /\ NexusPositions(building_positions) # {}

\* C17 as stated: build_lines raises an error for a line count of zero or
\* below instead of returning a line list
C17_Original ==
    (gen.called /\ gen.n_lines <= 0) => gen.raised # None

\* C17 amended: build_lines raises RuntimeError exactly for a line count
\* below zero; for a line count of zero it returns the empty list
C17_Budget ==
    gen.called =>
        /\ gen.raised = "RuntimeError" <=> gen.n_lines < 0
        /\ gen.raised # None => gen.lines = <<>>
        /\ gen.n_lines = 0 => (gen.raised = None /\ gen.lines = <<>>)

\* build_lines called with a negative line count on a map with a dependency
C17_Witness ==
    /\ gen.called
    /\ gen.n_lines < 0
    /\ gen.raised = "RuntimeError"
    /\ \E b \in DOMAIN gen.dependencies : gen.dependencies[b] # None

\* the keys info_generator adds for the bucket of the line count in
\* evaluation mode
BucketKeys(n) ==
    {k \o ToString(10 * (n \div 10)) :
        k \in {"success", "train_time_success", "normalized_elapsed_time"}}

\* C18: on every step with done = true the call raises no error and info
\* holds success as 0 or 1, the success of the line count and the sum of
\* curriculum level and success, and in evaluation mode train_time_success
\* and the bucketed keys as well
C18_TerminalInfo ==
    (Called /\ t) =>
        /\ raised = None
        /\ {"success", LenKey(Len(lines)), "curriculum+success"} \subseteq DOMAIN info
        /\ info["success"] \in {0, 1}
        /\ info[LenKey(Len(lines))] = info["success"]
        /\ info["curriculum+success"] = Level + info["success"]
        /\ evaluating =>
              ({"train_time_success"} \cup BucketKeys(Len(lines))) \subseteq DOMAIN info

\* C20: the first State after reset() has every resource count 0, pointer 0,
\* every worker assigned to gather MINERALS and standing on the Nexus tile,
\* the empty compound action and the full time budget, whatever went before;
\* step() before any reset() raises
C20_Reset ==
    [][/\ op' = "reset" =>
             /\ \A r \in Resource : resources'[r] = 0
             /\ ptr' = 0 /\ state'.pointer = 0
             /\ \A w \in Worker :
                   /\ assignments'[w] = Gather("MINERALS")
                   /\ building_positions'[positions'[w]] = Nexus
             /\ state'.action = CompoundAction
             /\ time_remaining' =
                   IF evaluating THEN eval_steps - 1 ELSE (1 + Len(lines')) * TimePerLine
             /\ state'.time_remaining = time_remaining'
       /\ (iterator = None /\ op' # "reset") => (raised' # None /\ iterator' = None)]_vars

\* the second reset(), which follows an episode that ended with success at
\* time_remaining = 0
C20_Witness ==
    /\ op = "reset"
    /\ i = MaxResets
    /\ raised = None
    /\ ~t

(***************************************************************************)
(* C21: every complete compound action takes exactly 1 off the simulator's *)
(* time_remaining, sets the pointer to the action's ptr and replaces the   *)
(* assignment of the worker the action names by the action's assignment;   *)
(* the assignment of every other worker is the one it had before the tick. *)
(***************************************************************************)
C21_TickFrame ==
    [][op' = "tick" =>
        /\ IsOp(state'.action)
        /\ time_remaining' = time_remaining - 1
        /\ ptr' = state'.action.ptr
        /\ state'.pointer = state'.action.ptr
        /\ assignments'[state'.action.worker] = ActionAssignment(state'.action)
        /\ \A w \in Worker \ {state'.action.worker} :
                assignments'[w] = assignments[w]]_vars

\* a tick that named W2 while W1 kept the build order it had
C21_Witness ==
    /\ op = "tick"
    /\ raised = None
    /\ state.action.worker = "W2"
    /\ assignments["W1"].type = "BuildOrder"
    /\ assignments["W1"] # ActionAssignment(state.action)

(***************************************************************************)
(* C22: within a tick each worker's queued next-action is recomputed from  *)
(* its assignment after the acting worker's assignment was updated from    *)
(* the received action and before the workers' effects are resolved: the   *)
(* next_actions of the State a tick yields are those of the updated        *)
(* assignments at the positions and buildings the tick started with.       *)
(***************************************************************************)
C22_Original ==
    [][op' = "tick" =>
        \A w \in Worker :
            next_actions'[w] =
                AssignmentAction(assignments'[w], positions[w], positions,
                                 NexusPositions(building_positions))]_vars

(***************************************************************************)
(* C22, amended: each worker's queued next-action is recomputed at the top *)
(* of the loop, after the workers' effects and the destruction step and    *)
(* before the State is yielded and the next action received: in every      *)
(* State the next_actions are those of the assignments as last updated, at *)
(* the positions and buildings of that State.                              *)
(***************************************************************************)
C22_NextActions ==
    iterator # None =>
        \A w \in Worker :
            next_actions[w] =
                AssignmentAction(assignments[w], positions[w], positions,
                                 NexusPositions(building_positions))

\* a tick in which a worker moved, and its queued next-action is not the one
\* its assignment gives at the tile it left
C22_Witness ==
    /\ op = "tick"
    /\ \E m \in Moves :
        /\ m.from # m.to
        /\ positions[m.worker] = m.to
        /\ next_actions[m.worker] #
                AssignmentAction(assignments[m.worker], m.from,
                                 [positions EXCEPT ![m.worker] = m.from],
                                 NexusPositions(building_positions))

(***************************************************************************)
(* C23: every line list build_lines returns is a concatenation of complete *)
(* dependency chains: a line whose building has a dependency comes right   *)
(* after a required = False line for that dependency, and a required =     *)
(* False line is followed by a line for a building that depends on its     *)
(* building, so that every chain runs from a root to a required = True     *)
(* line and none is cut short.                                             *)
(***************************************************************************)
C23_CompleteChains ==
    \A k \in 1 .. Len(gen.lines) :
        LET line == gen.lines[k]
            dependency == gen.dependencies[line.building]
        IN  /\ dependency # None =>
                    k > 1 /\ gen.lines[k - 1] = Line(FALSE, dependency)
            /\ dependency = None /\ k > 1 => gen.lines[k - 1].required
            /\ ~line.required =>
                    /\ k < Len(gen.lines)
                    /\ gen.dependencies[gen.lines[k + 1].building] = line.building

\* three lines for a budget of three: a chain of two, then a root, where a
\* second chain of two would not have fitted
C23_Witness ==
    /\ gen.called
    /\ gen.raised = None
    /\ gen.n_lines = 3
    /\ Len(gen.lines) = 3
    /\ ~gen.lines[1].required
    /\ gen.lines[2].required
    /\ gen.lines[3].required
    /\ \E b \in DOMAIN gen.dependencies :
            b # gen.lines[2].building /\ gen.dependencies[b] # None

(***************************************************************************)
(* C24: every resource count of every State is a non-negative integer,     *)
(* whatever the actions and however many workers attempt a construction in *)
(* the same tick: each attempt is checked against the resources the        *)
(* workers resolved before it left, and an allowed attempt takes exactly   *)
(* its cost off them, which they cover.                                    *)
(***************************************************************************)
C24_Resources ==
    /\ \A r \in Resource : resources[r] \in Nat
    /\ \A k \in 1 .. Len(attempts) :
        LET a == attempts[k]
        IN  /\ \A r \in Resource :
                    a.before.resources[r] \in Nat /\ a.after.resources[r] \in Nat
            /\ a.allowed =>
                    \A r \in Resource :
                        a.after.resources[r] = a.before.resources[r] - Cost(a.building)[r]
            /\ k > 1 =>
                    \A r \in Resource :
                        a.before.resources[r] >= attempts[k - 1].after.resources[r]
            /\ k = Len(attempts) =>
                    \A r \in Resource : resources[r] >= a.after.resources[r]

\* two workers attempt in one tick; the first is allowed and pays, and the
\* second, whose cost the resources covered before the first paid, is refused
\* for its cost alone
C24_Witness ==
    /\ op = "tick"
    /\ Len(attempts) = 2
    /\ attempts[1].worker # attempts[2].worker
    /\ attempts[1].allowed
    /\ ~attempts[2].allowed
    /\ \A r \in Resource :
            Cost(attempts[2].building)[r] <= attempts[1].before.resources[r]
    /\ ~Covers(attempts[2])
    /\ TileFree(attempts[2])
    /\ TileFits(attempts[2])
    /\ dependencies[attempts[2].building] = None

(***************************************************************************)
(* C25: in every State no coordinate is both a key of building_positions   *)
(* and a value of positions, the map of the workers' and the resources'    *)
(* positions.                                                              *)
(***************************************************************************)
C25_Original ==
    iterator # None =>
        \A c \in Coord, o \in Worker \cup Resource :
            building_positions[c] # None => positions[o] # c

(***************************************************************************)
(* C25, amended: in every State no coordinate is both a key of             *)
(* building_positions and the position of a resource, but for the gas tile *)
(* under an Assimilator; a worker can stand on a building's coordinate.    *)
(***************************************************************************)
C25_ResourceTiles ==
    iterator # None =>
        \A r \in Resource :
            building_positions[positions[r]] # None =>
                r = "GAS" /\ building_positions[positions[r]] = Assimilator

\* after a tick that placed a building that is no Assimilator: its worker
\* stands on it, and an Assimilator stands on the gas tile
C25_Witness ==
    /\ op = "tick"
    /\ building_positions[positions["GAS"]] = Assimilator
    /\ \E a \in Attempts :
        /\ a.allowed
        /\ a.building # Assimilator
        /\ building_positions[a.tile] = a.building
        /\ positions[a.worker] = a.tile

(***************************************************************************)
(* C27: in every State every standing Assimilator is on the gas tile, and  *)
(* no other building is on the gas tile or on the minerals tile, for the   *)
(* buildings placed at reset and for those constructed in the episode.     *)
(***************************************************************************)
C27_Tiles ==
    iterator # None =>
        \A c \in Coord :
            /\ building_positions[c] = Assimilator => c = positions["GAS"]
            /\ building_positions[c] \notin {None, Assimilator} =>
                    c \notin {positions["GAS"], positions["MINERALS"]}

\* a building placed at reset that is neither the Nexus nor an Assimilator
\* stands next to an Assimilator a worker constructed in the last tick
C27_Witness ==
    /\ op = "tick"
    /\ \E c \in Coord : building_positions[c] \notin {None, Nexus, Assimilator}
    /\ \E a \in Attempts :
        /\ a.allowed
        /\ a.building = Assimilator
        /\ building_positions[a.tile] = Assimilator
        /\ \E c \in Coord : a.before.building_positions[c] \notin {None, Nexus, Assimilator}

(***************************************************************************)
(* C26: in every tick each worker's position changes by at most one unit   *)
(* step along a single axis, and in every State every worker's position is *)
(* inside the WorldSize x WorldSize grid.                                  *)
(***************************************************************************)
C26_UnitSteps ==
    [][/\ op' = "tick" =>
            \A w \in Worker :
                \/ positions'[w] = positions[w]
                \/ /\ positions'[w][1] = positions[w][1]
                   /\ positions'[w][2] - positions[w][2] \in {-1, 1}
                \/ /\ positions'[w][2] = positions[w][2]
                   /\ positions'[w][1] - positions[w][1] \in {-1, 1}
       /\ op' \in {"reset", "tick"} => \A w \in Worker : positions'[w] \in Coord]_vars

\* a tick in which one worker stepped along the first axis and the other
\* along the second
C26_Witness ==
    /\ op = "tick"
    /\ \E m, n \in Moves :
        /\ m.worker # n.worker
        /\ m.from[1] # m.to[1]
        /\ n.from[2] # n.to[2]

(***************************************************************************)
(* C28: in evaluation mode the assertion info["success"] <=                *)
(* info["train_time_success"] of info_generator holds on every terminal    *)
(* step, whatever the success and the time_remaining the episode ends      *)
(* with.                                                                   *)
(***************************************************************************)
C28_Assertion ==
    (Called /\ evaluating /\ Done(state)) =>
        /\ (IF state.success THEN 1 ELSE 0)
                <= (IF state.success THEN state.time_remaining ELSE 0)
        /\ raised # "AssertionError"

OneStepFromSuccess(b) ==
    /\ dependencies[b] # None
    /\ Standing(building_positions)[dependencies[b]] > 0
    /\ Required(lines)[b] - Standing(building_positions)[b] = 1
    /\ \A c \in BuildingSet \ {b} :
            Required(lines)[c] <= Standing(building_positions)[c]
    /\ \E w \in Worker \ {state.action.worker} :
        /\ assignments[w] = BuildOrder(b, positions[w])
        /\ building_positions[positions[w]] = None
        /\ positions[w] \notin {positions["GAS"], positions["MINERALS"]}
        /\ \A r \in Resource : Cost(b)[r] <= resources[r]

C29_Solvable ==
    (/\ iterator # None
     /\ raised = None
     /\ destroy_building_prob = 0
     /\ time_remaining > 0
     /\ state.action.stage = 1
     /\ \E b \in BuildingSet : OneStepFromSuccess(b))
        => ENABLED (StepTick /\ state'.success)

(***************************************************************************)
(* C29, what the code does instead: in an episode of a task that requires  *)
(* a building with a dependency more often than it stands at reset, no     *)
(* State has success = true, whatever the actions.                         *)
(***************************************************************************)
C29_NeverSolved ==
    (/\ iterator # None
     /\ destroy_building_prob = 0
     /\ \E b \in BuildingSet :
            /\ dependencies[b] # None
            /\ Required(lines)[b] > (IF b = Nexus THEN 1 ELSE 0))
        => ~state.success

====
